---- MODULE Spec2Model ----
(***************************************************************************)
(* A model of the BGP-style router of src/bgp-router.py: the forwarding    *)
(* table with its aggregation trees, the update log, the decision engine   *)
(* and the message handlers.                                               *)
(*                                                                         *)
(* An address is a tuple of four octets.  Python compares addresses as     *)
(* dotted-quad strings, so Dotted renders the string and StrLess compares  *)
(* two strings character by character, as Python does.                     *)
(* A route is a record; its children are held in the field kids, which is  *)
(* <<>> for child0 = child1 = None and <<child0, child1>> otherwise.       *)
(* Python's ==, `in` and list.remove compare dicts by value, and no route  *)
(* is mutated after it is built, so routes are modelled as values.         *)
(***************************************************************************)
EXTENDS Integers, Sequences, FiniteSets, TLC

VARIABLES
    relations,  \* Router.relations: neighbor -> "cust" | "peer" | "prov"
    routes,     \* Router.routes: the top-level forwarding table (a list)
    updates,    \* Router.updates: the log of update / withdraw records
    sent,       \* what send() was called with while handling the last message
    received,   \* the datagrams run() has read so far, each with the link it came on
    running     \* FALSE once an exception has escaped Router.run

vars == <<relations, routes, updates, sent, received, running>>

-----------------------------------------------------------------------------
(* Bounds of the exploration *)

MaxUpdates == 4
MaxWithdraws == 1
MaxProbeUpdates == 3
MaxAnyUpdates == 3
MaxAnyWithdraws == 1

-----------------------------------------------------------------------------
(* Configuration: the command line of the router *)

asn == 1

N1 == <<192, 168, 0, 2>>
N2 == <<172, 168, 0, 2>>
N3 == <<10, 0, 0, 2>>

\* the order of relations.keys(): the order of the connections on the command line
connections == <<N1, N2, N3>>

Neighbors == {connections[i] : i \in 1..Len(connections)}

relationOf == (N1 :> "cust") @@ (N2 :> "peer") @@ (N3 :> "prov")

-----------------------------------------------------------------------------
(* Strings of decimal digits and dots *)

\* str(n) for 0 <= n <= 999, one number per character
DecStr(n) ==
    IF n < 10 THEN <<n>>
    ELSE IF n < 100 THEN <<n \div 10, n % 10>>
    ELSE <<n \div 100, (n \div 10) % 10, n % 10>>

\* "%d.%d.%d.%d": the dot is written -1, as '.' sorts before every digit
Dotted(a) ==
    DecStr(a[1]) \o <<-1>> \o DecStr(a[2]) \o <<-1>> \o DecStr(a[3]) \o <<-1>> \o DecStr(a[4])

\* Python's s < t on strings: the first differing character decides, a proper
\* prefix is smaller
StrLess(s, t) ==
    \E k \in 1..(Len(t)) :
        /\ \A i \in 1..(k - 1) : i <= Len(s) /\ s[i] = t[i]
        /\ \/ k = Len(s) + 1
           \/ k <= Len(s) /\ s[k] < t[k]

\* a > b on two dotted-quad strings
AddrGreater(a, b) == StrLess(Dotted(b), Dotted(a))

our_addr(dst) == <<dst[1], dst[2], dst[3], 1>>

\* '{0:08b}'.format(n) for one octet
OctetBits(n) == [i \in 1..8 |-> (n \div (2 ^ (8 - i))) % 2]

ip_to_binary_string(ip) ==
    OctetBits(ip[1]) \o OctetBits(ip[2]) \o OctetBits(ip[3]) \o OctetBits(ip[4])

\* s[0:n] of Python (a negative n counts from the end)
Prefix(s, n) ==
    IF n >= 0 THEN SubSeq(s, 1, IF n > Len(s) THEN Len(s) ELSE n)
    ELSE SubSeq(s, 1, Len(s) + n)

\* s[n] of Python (a negative n counts from the end)
CharAt(s, n) == IF n >= 0 THEN s[n + 1] ELSE s[Len(s) + n + 1]

RECURSIVE CountOnes(_)
CountOnes(s) == IF s = <<>> THEN 0 ELSE (IF Head(s) = 1 THEN 1 ELSE 0) + CountOnes(Tail(s))

get_netmask_length(netmask) == CountOnes(ip_to_binary_string(netmask))

\* the loop of netmask_with_length: the widths of the four segments
RECURSIVE SegmentWidths(_, _)
SegmentWidths(netmask_length, i) ==
    IF i = 4 THEN <<>>
    ELSE IF netmask_length < 8
         THEN <<netmask_length>> \o SegmentWidths(0, i + 1)
         ELSE <<8>> \o SegmentWidths(netmask_length - 8, i + 1)

netmask_with_length(netmask_length) ==
    LET w == SegmentWidths(netmask_length, 0)
    IN  [i \in 1..4 |-> (2 ^ 8) - (2 ^ (8 - w[i]))]

-----------------------------------------------------------------------------
(* Routes and Python lists of routes *)

IsAggregate(route) == route.kids # <<>>
child0(route) == route.kids[1]
child1(route) == route.kids[2]

\* x in s
Contains(s, x) == \E i \in 1..Len(s) : s[i] = x

\* s.remove(x), for an x that is in s: the first equal element goes
RemoveFirst(s, x) ==
    LET i == CHOOSE k \in 1..Len(s) : s[k] = x /\ \A j \in 1..(k - 1) : s[j] # x
    IN  SubSeq(s, 1, i - 1) \o SubSeq(s, i + 1, Len(s))

-----------------------------------------------------------------------------
(* Aggregation *)

\* aggregate_routes without the comparison of the AS paths
aggregate_routes_any_path(route1, route2) ==
    IF \/ route1.netmask # route2.netmask
       \/ route1.localpref # route2.localpref
       \/ route1.selfOrigin # route2.selfOrigin
       \/ route1.origin # route2.origin
    THEN <<>>
    ELSE
      LET netmask_length == get_netmask_length(route1.netmask)
          route1_ip_binary == ip_to_binary_string(route1.network)
          route2_ip_binary == ip_to_binary_string(route2.network)
      IN  IF \/ Prefix(route1_ip_binary, netmask_length - 1)
                  # Prefix(route2_ip_binary, netmask_length - 1)
             \/ CharAt(route1_ip_binary, netmask_length - 1)
                  = CharAt(route2_ip_binary, netmask_length - 1)
          THEN <<>>
          ELSE
            LET swap == AddrGreater(route1.network, route2.network)
            IN  <<[route1 EXCEPT
                     !.network = IF swap THEN route2.network ELSE route1.network,
                     !.kids = IF swap THEN <<route2, route1>> ELSE <<route1, route2>>,
                     !.netmask = netmask_with_length(netmask_length - 1)]>>

\* <<>> for None, <<aggregated_route>> otherwise
aggregate_routes(route1, route2) ==
    IF \/ route1.netmask # route2.netmask
       \/ route1.localpref # route2.localpref
       \/ route1.selfOrigin # route2.selfOrigin
       \/ route1.ASPath # route2.ASPath
       \/ route1.origin # route2.origin
    THEN <<>>
    ELSE
      LET netmask_length == get_netmask_length(route1.netmask)
          route1_ip_binary == ip_to_binary_string(route1.network)
          route2_ip_binary == ip_to_binary_string(route2.network)
      IN  IF \/ Prefix(route1_ip_binary, netmask_length - 1)
                  # Prefix(route2_ip_binary, netmask_length - 1)
             \/ CharAt(route1_ip_binary, netmask_length - 1)
                  = CharAt(route2_ip_binary, netmask_length - 1)
          THEN <<>>
          ELSE
            LET swap == AddrGreater(route1.network, route2.network)
            IN  <<[route1 EXCEPT
                     !.network = IF swap THEN route2.network ELSE route1.network,
                     !.kids = IF swap THEN <<route2, route1>> ELSE <<route1, route2>>,
                     !.netmask = netmask_with_length(netmask_length - 1)]>>

\* the index pairs (i, j), i < j, in the order of the two nested loops
RECURSIVE PairsFrom(_, _, _)
PairsFrom(i, j, n) ==
    IF i >= n THEN <<>>
    ELSE IF j > n THEN PairsFrom(i + 1, i + 2, n)
    ELSE <<<<i, j>>>> \o PairsFrom(i, j + 1, n)

\* the list aggregated_routes built by the first loop of coalesce
RECURSIVE CollectAggregates(_, _)
CollectAggregates(rs, pairs) ==
    IF pairs = <<>> THEN <<>>
    ELSE
      LET p == Head(pairs)
          a == aggregate_routes(rs[p[1]], rs[p[2]])
          rest == CollectAggregates(rs, Tail(pairs))
      IN  IF a = <<>> THEN rest
          ELSE <<[route1 |-> rs[p[1]], route2 |-> rs[p[2]], aggregated_route |-> a[1]]>> \o rest

\* the second loop of coalesce; ok = FALSE when list.remove raises ValueError,
\* with the table as the exception leaves it
RECURSIVE ApplyAggregates(_, _)
ApplyAggregates(rs, aggregated_routes) ==
    IF aggregated_routes = <<>> THEN [routes |-> rs, ok |-> TRUE]
    ELSE
      LET m == Head(aggregated_routes)
      IN  IF ~Contains(rs, m.route1) THEN [routes |-> rs, ok |-> FALSE]
          ELSE
            LET rs1 == RemoveFirst(rs, m.route1)
            IN  IF ~Contains(rs1, m.route2) THEN [routes |-> rs1, ok |-> FALSE]
                ELSE ApplyAggregates(Append(RemoveFirst(rs1, m.route2), m.aggregated_route),
                                     Tail(aggregated_routes))

RECURSIVE coalesce(_)
coalesce(rs) ==
    LET aggregated_routes == CollectAggregates(rs, PairsFrom(1, 2, Len(rs)))
    IN  IF aggregated_routes = <<>> THEN [routes |-> rs, ok |-> TRUE]
        ELSE
          LET r == ApplyAggregates(rs, aggregated_routes)
          IN  IF r.ok THEN coalesce(r.routes) ELSE r

-----------------------------------------------------------------------------
(* Withdrawal *)

\* matched: the return value; routes: self.routes after the appends of the call
RECURSIVE withdraw_route(_, _, _, _)
withdraw_route(srcif, withdraw_msg, route, rs) ==
    IF /\ route.network = withdraw_msg.network
       /\ route.netmask = withdraw_msg.netmask
       /\ route.peer = srcif
    THEN [matched |-> TRUE, routes |-> rs]
    ELSE IF IsAggregate(route)
    THEN
      LET r0 == withdraw_route(srcif, withdraw_msg, child0(route), rs)
      IN  IF r0.matched
          THEN [matched |-> TRUE,
                routes |-> IF Contains(r0.routes, child1(route)) THEN r0.routes
                           ELSE Append(r0.routes, child1(route))]
          ELSE
            LET r1 == withdraw_route(srcif, withdraw_msg, child1(route), rs)
            IN  IF r1.matched
                THEN [matched |-> TRUE,
                      routes |-> IF Contains(r1.routes, child0(route)) THEN r1.routes
                                 ELSE Append(r1.routes, child0(route))]
                ELSE [matched |-> FALSE, routes |-> rs]
    ELSE [matched |-> FALSE, routes |-> rs]

\* the two nested loops of handle_withdraw_msg: route number i of the (growing)
\* table against descriptor number k
RECURSIVE WithdrawScan(_, _, _, _, _, _)
WithdrawScan(srcif, descs, rs, i, k, withdraw_routes) ==
    IF i > Len(rs) THEN [routes |-> rs, withdraw_routes |-> withdraw_routes]
    ELSE IF k > Len(descs) THEN WithdrawScan(srcif, descs, rs, i + 1, 1, withdraw_routes)
    ELSE
      LET r == withdraw_route(srcif, descs[k], rs[i], rs)
      IN  WithdrawScan(srcif, descs, r.routes, i, k + 1,
                       IF r.matched THEN Append(withdraw_routes, rs[i]) ELSE withdraw_routes)

\* the removal loop of handle_withdraw_msg
RECURSIVE RemoveWithdrawn(_, _)
RemoveWithdrawn(rs, withdraw_routes) ==
    IF withdraw_routes = <<>> THEN rs
    ELSE RemoveWithdrawn(IF Contains(rs, Head(withdraw_routes))
                         THEN RemoveFirst(rs, Head(withdraw_routes)) ELSE rs,
                         Tail(withdraw_routes))

\* the table after a withdraw message
WithdrawTable(srcif, descs, rs) ==
    LET s == WithdrawScan(srcif, descs, rs, 1, 1, <<>>)
    IN  RemoveWithdrawn(s.routes, s.withdraw_routes)

-----------------------------------------------------------------------------
(* Propagation *)

\* the neighbors an update or a withdraw from srcif is forwarded to, in order
ForwardTargets(srcif) ==
    LET Keep(neighbor) ==
            /\ neighbor # srcif
            /\ (relations[srcif] = "cust" \/ relations[neighbor] = "cust")
    IN  SelectSeq(connections, Keep)

-----------------------------------------------------------------------------
(* The decision engine *)

\* TRUE iff the scan of find_routes puts route in place of valid_routes[0]
Replaces(v, route) ==
    IF v.localpref < route.localpref THEN TRUE
    ELSE IF v.localpref = route.localpref
    THEN IF (~v.selfOrigin) /\ route.selfOrigin THEN TRUE
         ELSE IF v.selfOrigin = route.selfOrigin
         THEN IF Len(v.ASPath) > Len(route.ASPath) THEN TRUE
              ELSE IF Len(v.ASPath) = Len(route.ASPath)
              THEN IF \/ (route.origin = "IGP" /\ v.origin # "IGP")
                      \/ (route.origin = "EGP" /\ v.origin = "UNK")
                   THEN TRUE
                   ELSE IF route.origin = v.origin
                   THEN AddrGreater(v.peer, route.peer)
                   ELSE FALSE
              ELSE FALSE
         ELSE FALSE
    ELSE FALSE

\* TRUE iff the first netmask_length bits of dest and of the network agree
Matches(dest, route) ==
    LET netmask_length == get_netmask_length(route.netmask)
    IN  Prefix(ip_to_binary_string(dest), netmask_length)
          = Prefix(ip_to_binary_string(route.network), netmask_length)

\* the first loop of find_routes without the comparison of the netmask lengths:
\* every matching route competes on its attributes alone
RECURSIVE ScanRoutesAnyLength(_, _, _, _, _)
ScanRoutesAnyLength(rs, i, dest, valid_netmask_length, valid_routes) ==
    IF i > Len(rs) THEN valid_routes
    ELSE
      LET route == rs[i]
          netmask_length == get_netmask_length(route.netmask)
      IN  IF ~Matches(dest, route)
          THEN ScanRoutesAnyLength(rs, i + 1, dest, valid_netmask_length, valid_routes)
          ELSE IF valid_routes = <<>> \/ Replaces(valid_routes[1], route)
          THEN ScanRoutesAnyLength(rs, i + 1, dest, netmask_length, <<route>>)
          ELSE ScanRoutesAnyLength(rs, i + 1, dest, valid_netmask_length, valid_routes)

\* the first loop of find_routes, from route number i on: valid_routes at its end
RECURSIVE ScanRoutes(_, _, _, _, _)
ScanRoutes(rs, i, dest, valid_netmask_length, valid_routes) ==
    IF i > Len(rs) THEN valid_routes
    ELSE
      LET route == rs[i]
          netmask_length == get_netmask_length(route.netmask)
      IN  IF ~Matches(dest, route)
          THEN ScanRoutes(rs, i + 1, dest, valid_netmask_length, valid_routes)
          ELSE IF valid_netmask_length < netmask_length
          THEN ScanRoutes(rs, i + 1, dest, netmask_length, <<route>>)
          ELSE IF valid_netmask_length = netmask_length /\ Replaces(valid_routes[1], route)
          THEN ScanRoutes(rs, i + 1, dest, netmask_length, <<route>>)
          ELSE ScanRoutes(rs, i + 1, dest, valid_netmask_length, valid_routes)

\* valid_routes before the policy filter
SelectRoutes(rs, dest) == ScanRoutes(rs, 1, dest, -1, <<>>)

\* find_routes without the policy filter
find_routes_unfiltered(rs, srcif, dest) == [ok |-> TRUE, found |-> SelectRoutes(rs, dest)]

\* ok = FALSE when relations[route.peer] raises KeyError; found is <<>> for None
\* and <<route>> otherwise
find_routes(rs, srcif, dest) ==
    LET valid_routes == SelectRoutes(rs, dest)
        IsCust(route) == relations[route.peer] = "cust"
    IN  IF relations[srcif] = "cust" THEN [ok |-> TRUE, found |-> valid_routes]
        ELSE IF \E i \in 1..Len(valid_routes) : valid_routes[i].peer \notin DOMAIN relations
        THEN [ok |-> FALSE, found |-> <<>>]
        ELSE [ok |-> TRUE, found |-> SelectSeq(valid_routes, IsCust)]

-----------------------------------------------------------------------------
(* The message handlers.  A message is a record [type, src, dst, msg]; an   *)
(* entry of sent is [to, msg]: the arguments of one call of send().         *)

Received(srcif, msg) == [srcif |-> srcif, msg |-> msg]

\* the body of handle_update_msg on the table rs: the table it leaves, whether it
\* returns (ok) or raises, and its calls of send()
UpdateOutcome(rs, srcif, msg) ==
    LET new_route == [network |-> msg.msg.network, netmask |-> msg.msg.netmask,
                      localpref |-> msg.msg.localpref, selfOrigin |-> msg.msg.selfOrigin,
                      ASPath |-> msg.msg.ASPath, origin |-> msg.msg.origin,
                      peer |-> msg.src, kids |-> <<>>]
        r == coalesce(Append(rs, new_route))
        targets == ForwardTargets(srcif)
        n_msg(neighbor) ==
            [type |-> "update", src |-> our_addr(neighbor), dst |-> neighbor,
             msg |-> [netmask |-> msg.msg.netmask, ASPath |-> <<asn>> \o msg.msg.ASPath,
                      network |-> msg.msg.network]]
    IN  [routes |-> r.routes,
         ok |-> r.ok,
         sent |-> IF r.ok
                  THEN [i \in 1..Len(targets) |-> [to |-> targets[i], msg |-> n_msg(targets[i])]]
                  ELSE <<>>]

handle_update_msg(srcif, msg) ==
    \E o \in {UpdateOutcome(routes, srcif, msg)} :
        /\ updates' = Append(updates, msg)
        /\ routes' = o.routes
        /\ running' = o.ok
        /\ sent' = o.sent
        /\ received' = Append(received, Received(srcif, msg))
        /\ UNCHANGED relations

\* the body of handle_withdraw_msg on the table rs: the table it leaves, its calls
\* of send() and the record the log holds when it returns
WithdrawOutcome(rs, srcif, msg) ==
    LET targets == ForwardTargets(srcif)
        out(neighbor) == [msg EXCEPT !.src = our_addr(neighbor), !.dst = neighbor]
    IN  [routes |-> WithdrawTable(srcif, msg.msg, rs),
         sent |-> [i \in 1..Len(targets) |-> [to |-> targets[i], msg |-> out(targets[i])]],
         \* the logged record is the object whose src and dst the send loop rewrites
         logged |-> IF targets = <<>> THEN msg ELSE out(targets[Len(targets)])]

handle_withdraw_msg(srcif, msg) ==
    \E o \in {WithdrawOutcome(routes, srcif, msg)} :
        /\ updates' = Append(updates, o.logged)
        /\ routes' = o.routes
        /\ sent' = o.sent
        /\ received' = Append(received, Received(srcif, msg))
        /\ UNCHANGED <<relations, running>>

\* the body of handle_data_msg: its calls of send(), and whether it returns (ok) or
\* raises KeyError
DataOutcome(rs, srcif, msg) ==
    LET r == find_routes(rs, srcif, msg.dst)
        no_route == [type |-> "no route", src |-> our_addr(srcif), dst |-> msg.src, msg |-> <<>>]
        delivered == r.ok /\ (r.found = <<>> \/ r.found[1].peer \in Neighbors)
    IN  [ok |-> delivered,
         sent |-> IF ~delivered THEN <<>>
                  ELSE IF r.found = <<>> THEN <<[to |-> srcif, msg |-> no_route]>>
                  ELSE <<[to |-> r.found[1].peer, msg |-> msg]>>]

handle_data_msg(srcif, msg) ==
    \E o \in {DataOutcome(routes, srcif, msg)} :
        /\ running' = o.ok
        /\ sent' = o.sent
        /\ received' = Append(received, Received(srcif, msg))
        /\ UNCHANGED <<relations, routes, updates>>

\* a route without child0 and child1
Printable(route) ==
    [network |-> route.network, netmask |-> route.netmask, localpref |-> route.localpref,
     selfOrigin |-> route.selfOrigin, ASPath |-> route.ASPath, origin |-> route.origin,
     peer |-> route.peer]

\* handle_dump_msg without the deepcopy: child0 and child1 are popped from the
\* records of the table itself
handle_dump_msg_in_place(srcif, msg) ==
    LET printable_routes == [i \in 1..Len(routes) |-> Printable(routes[i])]
        table == [type |-> "table", src |-> msg.dst, dst |-> msg.src, msg |-> printable_routes]
    IN  /\ running' = (msg.src \in Neighbors)
        /\ sent' = IF msg.src \in Neighbors THEN <<[to |-> msg.src, msg |-> table]>> ELSE <<>>
        /\ received' = Append(received, Received(srcif, msg))
        /\ routes' = printable_routes
        /\ UNCHANGED <<relations, updates>>

handle_dump_msg(srcif, msg) ==
    LET printable_routes == [i \in 1..Len(routes) |-> Printable(routes[i])]
        table == [type |-> "table", src |-> msg.dst, dst |-> msg.src, msg |-> printable_routes]
    IN  /\ running' = (msg.src \in Neighbors)
        /\ sent' = IF msg.src \in Neighbors THEN <<[to |-> msg.src, msg |-> table]>> ELSE <<>>
        /\ received' = Append(received, Received(srcif, msg))
        /\ UNCHANGED <<relations, routes, updates>>

\* a message of any other type is read and ignored
handle_other_msg(srcif, msg) ==
    /\ sent' = <<>>
    /\ received' = Append(received, Received(srcif, msg))
    /\ UNCHANGED <<relations, routes, updates, running>>

handle_msg(srcif, msg) ==
    IF msg.type = "update" THEN handle_update_msg(srcif, msg)
    ELSE IF msg.type = "withdraw" THEN handle_withdraw_msg(srcif, msg)
    ELSE IF msg.type = "data" THEN handle_data_msg(srcif, msg)
    ELSE IF msg.type = "dump" THEN handle_dump_msg(srcif, msg)
    ELSE handle_other_msg(srcif, msg)

-----------------------------------------------------------------------------
(* The neighbors' messages *)

M24 == <<255, 255, 255, 0>>
M23 == <<255, 255, 254, 0>>

Net8 == <<192, 168, 8, 0>>
Net9 == <<192, 168, 9, 0>>
Net10 == <<192, 168, 10, 0>>

\* two sets of attributes that differ in the ASPath alone, at equal length
AttrsP == [localpref |-> 100, selfOrigin |-> TRUE, ASPath |-> <<2>>, origin |-> "IGP"]
AttrsQ == [localpref |-> 100, selfOrigin |-> TRUE, ASPath |-> <<3>>, origin |-> "IGP"]

Announce(network, netmask, attrs) ==
    [network |-> network, netmask |-> netmask, localpref |-> attrs.localpref,
     selfOrigin |-> attrs.selfOrigin, ASPath |-> attrs.ASPath, origin |-> attrs.origin]

UpdateMsg(neighbor, network, netmask, attrs) ==
    [type |-> "update", src |-> neighbor, dst |-> our_addr(neighbor),
     msg |-> Announce(network, netmask, attrs)]

Desc(network, netmask) == [network |-> network, netmask |-> netmask]

WithdrawMsg(neighbor, descs) ==
    [type |-> "withdraw", src |-> neighbor, dst |-> our_addr(neighbor), msg |-> descs]

\* the announcements each neighbor makes
UpdateMsgs ==
    { UpdateMsg(N1, Net8, M24, AttrsP), UpdateMsg(N1, Net9, M24, AttrsP),
      UpdateMsg(N1, Net8, M23, AttrsP), UpdateMsg(N1, Net8, M24, AttrsQ),
      UpdateMsg(N2, Net10, M23, AttrsP),
      UpdateMsg(N3, Net9, M24, AttrsP) }

\* the withdrawals each neighbor makes
WithdrawMsgs ==
    { WithdrawMsg(N1, <<Desc(Net8, M24)>>), WithdrawMsg(N1, <<Desc(Net9, M24)>>),
      WithdrawMsg(N1, <<Desc(Net8, M23)>>),
      WithdrawMsg(N1, <<Desc(Net8, M24), Desc(Net9, M24)>>),
      WithdrawMsg(N2, <<Desc(Net10, M23)>>),
      WithdrawMsg(N3, <<Desc(Net9, M24)>>) }

\* the hosts data packets are addressed to, and the host behind a neighbor that
\* sends them
Dests == { <<192, 168, 8, 5>>, <<192, 168, 9, 5>>, <<192, 168, 10, 5>> }

Host(neighbor) == <<neighbor[1], neighbor[2], neighbor[3], 25>>

DataMsg(neighbor, dest) == [type |-> "data", src |-> Host(neighbor), dst |-> dest, msg |-> <<>>]

DumpMsg(neighbor) == [type |-> "dump", src |-> neighbor, dst |-> our_addr(neighbor), msg |-> <<>>]

\* a message of a type handle_msg has no branch for
HandshakeMsg(neighbor) ==
    [type |-> "handshake", src |-> neighbor, dst |-> our_addr(neighbor), msg |-> <<>>]

NumOfType(log, type) == Cardinality({i \in 1..Len(log) : log[i].type = type})

\* Datagrams as a neighbor is free to write them: run() takes the link from the
\* socket and the handlers take everything else from the record, which nothing
\* validates.  Stranger is an address that is no neighbor of the router, MaskGap a
\* netmask whose 1-bits are not contiguous.
Stranger == <<192, 168, 7, 2>>

MaskGap == <<255, 0, 255, 0>>

Net169 == <<192, 169, 8, 0>>

Arrival(srcif, msg) == [srcif |-> srcif, msg |-> msg]

AnyUpdateMsgs ==
    { Arrival(N1, UpdateMsg(N1, Net8, M24, AttrsP)),
      Arrival(N3, UpdateMsg(N3, Net9, M24, AttrsP)),
      Arrival(N2, UpdateMsg(N2, Net10, M23, AttrsP)),
      \* src is no neighbor
      Arrival(N1, UpdateMsg(Stranger, Net10, M23, AttrsQ)),
      \* src is a neighbor, but not the one on this link
      Arrival(N2, UpdateMsg(N1, Net9, M24, AttrsQ)),
      \* netmasks with a gap
      Arrival(N1, UpdateMsg(N1, Net8, MaskGap, AttrsP)),
      Arrival(N1, UpdateMsg(N1, Net169, MaskGap, AttrsP)) }

AnyWithdrawMsgs ==
    { Arrival(N1, WithdrawMsg(N1, <<Desc(Net8, M24)>>)),
      Arrival(N3, WithdrawMsg(N3, <<Desc(Net9, M24)>>)),
      Arrival(N1, WithdrawMsg(Stranger, <<Desc(Net10, M23)>>)),
      Arrival(N1, WithdrawMsg(N1, <<Desc(Net8, MaskGap)>>)) }

AnyDumpMsgs ==
    { Arrival(n, DumpMsg(n)) : n \in Neighbors }
    \* dst is not the address of the router on the link
    \cup { Arrival(n, [DumpMsg(n) EXCEPT !.dst = Stranger]) : n \in Neighbors }
    \* src is no neighbor
    \cup { Arrival(N1, [DumpMsg(N1) EXCEPT !.src = Stranger]) }

-----------------------------------------------------------------------------
(* The router *)

\* Router.__init__: the tables are empty and a handshake has gone to every neighbor
Init ==
    /\ relations = relationOf
    /\ routes = <<>>
    /\ updates = <<>>
    /\ sent = [i \in 1..Len(connections) |->
                 [to |-> connections[i],
                  msg |-> [type |-> "handshake", src |-> our_addr(connections[i]),
                           dst |-> connections[i], msg |-> <<>>]]]
    /\ received = <<>>
    /\ running = TRUE

\* one turn of the loop of Router.run: a datagram is read from the socket of srcif
\* and handled; an exception that escapes a handler ends the loop
Receive(srcif, msg) == running /\ handle_msg(srcif, msg)

\* the explored runs end with the first message that is neither an update nor a
\* withdraw: its handling writes neither routes nor updates, so the runs cut off
\* reach no further table
Probed == received # <<>> /\ received[Len(received)].msg.type \notin {"update", "withdraw"}

RecvUpdate(bound) ==
    /\ NumOfType(updates, "update") < bound
    /\ ~Probed
    /\ \E msg \in UpdateMsgs : Receive(msg.src, msg)

RecvWithdraw ==
    /\ NumOfType(updates, "withdraw") < MaxWithdraws
    /\ ~Probed
    /\ \E msg \in WithdrawMsgs : Receive(msg.src, msg)

RecvData == ~Probed /\ \E srcif \in Neighbors, dest \in Dests : Receive(srcif, DataMsg(srcif, dest))

RecvDump == ~Probed /\ \E srcif \in Neighbors : Receive(srcif, DumpMsg(srcif))

RecvOther == ~Probed /\ \E srcif \in Neighbors : Receive(srcif, HandshakeMsg(srcif))

RecvProbeUpdate == RecvUpdate(MaxProbeUpdates)

RecvTableUpdate == RecvUpdate(MaxUpdates)

\* the router with every handler, over short runs of announcements
Next == RecvProbeUpdate \/ RecvWithdraw \/ RecvData \/ RecvDump \/ RecvOther

Spec == Init /\ [][Next]_vars

\* the control plane alone (the update and withdraw handlers), over longer runs:
\* the data and dump handlers write neither routes nor updates
NextTable == RecvTableUpdate \/ RecvWithdraw

SpecTable == Init /\ [][NextTable]_vars

RecvAnyUpdate ==
    /\ NumOfType(updates, "update") < MaxAnyUpdates
    /\ ~Probed
    /\ \E arrival \in AnyUpdateMsgs : Receive(arrival.srcif, arrival.msg)

RecvAnyWithdraw ==
    /\ NumOfType(updates, "withdraw") < MaxAnyWithdraws
    /\ ~Probed
    /\ \E arrival \in AnyWithdrawMsgs : Receive(arrival.srcif, arrival.msg)

RecvAnyDump == ~Probed /\ \E arrival \in AnyDumpMsgs : Receive(arrival.srcif, arrival.msg)

\* the router with every handler, over short runs of records that nothing
\* validates
NextAny == RecvAnyUpdate \/ RecvAnyWithdraw \/ RecvData \/ RecvAnyDump \/ RecvOther

SpecAny == Init /\ [][NextAny]_vars

-----------------------------------------------------------------------------
(* Reference definitions of the claims, on the bits of an address *)

\* bit number k of an address, k = 0 for the most significant bit
Bit(a, k) == (a[(k \div 8) + 1] \div (2 ^ (7 - (k % 8)))) % 2

\* the number of 1-bits of an octet
RECURSIVE OnesOf(_)
OnesOf(octet) == IF octet = 0 THEN 0 ELSE (octet % 2) + OnesOf(octet \div 2)

\* the prefix length of a netmask: the number of its 1-bits
PrefixLen(netmask) ==
    OnesOf(netmask[1]) + OnesOf(netmask[2]) + OnesOf(netmask[3]) + OnesOf(netmask[4])

\* how many of the first n bits of an address lie in its octet number j
BitsIn(j, n) ==
    IF n >= 8 * j THEN 8 ELSE IF n <= 8 * (j - 1) THEN 0 ELSE n - 8 * (j - 1)

\* a and b agree on their first n bits
AgreeOn(a, b, n) ==
    \A j \in 1..4 : a[j] \div (2 ^ (8 - BitsIn(j, n))) = b[j] \div (2 ^ (8 - BitsIn(j, n)))

\* a < b as 32-bit numbers
NumLess(a, b) == \E k \in 1..4 : a[k] < b[k] /\ \A j \in 1..(k - 1) : a[j] = b[j]

SameAttributes(r1, r2) ==
    /\ r1.localpref = r2.localpref
    /\ r1.selfOrigin = r2.selfOrigin
    /\ r1.ASPath = r2.ASPath
    /\ r1.origin = r2.origin

Mergeable(r1, r2) ==
    /\ r1.netmask = r2.netmask
    /\ PrefixLen(r1.netmask) >= 1
    /\ SameAttributes(r1, r2)
    /\ AgreeOn(r1.network, r2.network, PrefixLen(r1.netmask) - 1)
    /\ Bit(r1.network, PrefixLen(r1.netmask) - 1) # Bit(r2.network, PrefixLen(r1.netmask) - 1)

\* the prefix of the route matches dest on its full length
Covers(dest, route) == AgreeOn(dest, route.network, PrefixLen(route.netmask))

\* the message handled last
Last == received[Len(received)]

Handled(type) == received # <<>> /\ Last.msg.type = type

-----------------------------------------------------------------------------
(* C1 *)

\* C1: once the router has finished handling a message, no two records of the
\* top-level table are mergeable.
C1_NoMergeablePair ==
    running =>
        \A i, j \in 1..Len(routes) : i < j => ~Mergeable(routes[i], routes[j])

-----------------------------------------------------------------------------
(* C2 *)

\* route is a top-level record that matches dest at the longest length of any
\* top-level record matching dest
LongestMatch(rs, dest, route) ==
    LET length == PrefixLen(route.netmask)
    IN  /\ Contains(rs, route)
        /\ Covers(dest, route)
        /\ \A i \in 1..Len(rs) :
               Covers(dest, rs[i]) => PrefixLen(rs[i].netmask) <= length

\* C2: for every source neighbor and destination, find_routes returns no route or
\* one top-level record that matches the destination at the longest matching
\* length; a data message that is relayed goes to the peer of such a record.
\* (A data or dump message leaves the table as it is, so every reachable table is
\* the table of a state in which the last message was neither.)
C2_LongestPrefixMatch ==
    /\ ~Probed =>
           \A srcif \in Neighbors, dest \in Dests :
               \A f \in {find_routes(routes, srcif, dest)} :
                   f.found # <<>> =>
                       Len(f.found) = 1 /\ LongestMatch(routes, dest, f.found[1])
    /\ Handled("data") =>
           \A k \in 1..Len(sent) :
               sent[k].msg.type = "data" =>
                   \E i \in 1..Len(routes) :
                       /\ routes[i].peer = sent[k].to
                       /\ LongestMatch(routes, Last.msg.dst, routes[i])

\* a data message was relayed while a shorter prefix matched its destination too
C2_Witness ==
    /\ Handled("data")
    /\ Len(sent) = 1
    /\ sent[1].msg.type = "data"
    /\ \E i, j \in 1..Len(routes) :
           /\ Covers(Last.msg.dst, routes[i])
           /\ Covers(Last.msg.dst, routes[j])
           /\ PrefixLen(routes[i].netmask) < PrefixLen(routes[j].netmask)

-----------------------------------------------------------------------------
(* C3 *)

\* the records that match dest at the longest matching length
LongestMatches(rs, dest) == {rs[i] : i \in {k \in 1..Len(rs) : LongestMatch(rs, dest, rs[k])}}

OriginRank(origin) == IF origin = "IGP" THEN 2 ELSE IF origin = "EGP" THEN 1 ELSE 0

ByLocalpref(S) == {r \in S : \A q \in S : q.localpref <= r.localpref}
BySelfOrigin(S) == IF \E r \in S : r.selfOrigin THEN {r \in S : r.selfOrigin} ELSE S
ByASPath(S) == {r \in S : \A q \in S : Len(r.ASPath) <= Len(q.ASPath)}
ByOrigin(S) == {r \in S : \A q \in S : OriginRank(q.origin) <= OriginRank(r.origin)}
ByPeer(S) == {r \in S : \A q \in S : ~NumLess(q.peer, r.peer)}

\* the tie-break cascade
Cascade(S) == ByPeer(ByOrigin(ByASPath(BySelfOrigin(ByLocalpref(S)))))

\* C3: the record find_routes selects before the policy filter is the single
\* survivor of the cascade over the longest-prefix matches, whatever the order
\* of the table.
C3_CascadeSelectsOne ==
    \A dest \in Dests :
        LET S == LongestMatches(routes, dest)
            selected == SelectRoutes(routes, dest)
        IN  IF S = {} THEN selected = <<>>
            ELSE Len(selected) = 1 /\ Cascade(S) = {selected[1]}

\* two top-level records have the same network, netmask and peer
DuplicateRecord ==
    \E i, j \in 1..Len(routes) :
        /\ i < j
        /\ routes[i].network = routes[j].network
        /\ routes[i].netmask = routes[j].netmask
        /\ routes[i].peer = routes[j].peer

\* on a table without such records the cascade has the single survivor that
\* find_routes selects
CascadeWithoutDuplicates == DuplicateRecord \/ C3_CascadeSelectsOne

-----------------------------------------------------------------------------
(* C4 *)

\* C4: a data message from S is relayed to P only if S or P is a customer, and a
\* data message from a non-customer whose best route has a non-customer peer is
\* answered with "no route" and not relayed.
C4_ValleyFree ==
    Handled("data") =>
        LET best == SelectRoutes(routes, Last.msg.dst)
        IN  /\ \A k \in 1..Len(sent) :
                   sent[k].msg.type = "data" =>
                       \/ relations[Last.srcif] = "cust"
                       \/ relations[sent[k].to] = "cust"
            /\ ( /\ relations[Last.srcif] # "cust"
                 /\ best # <<>>
                 /\ relations[best[1].peer] # "cust" )
               => /\ Len(sent) = 1
                  /\ sent[1].to = Last.srcif
                  /\ sent[1].msg.type = "no route"

\* a non-customer's data message whose best route leads to a non-customer was
\* answered with "no route"
C4_Witness ==
    /\ Handled("data")
    /\ relations[Last.srcif] # "cust"
    /\ SelectRoutes(routes, Last.msg.dst) # <<>>
    /\ relations[SelectRoutes(routes, Last.msg.dst)[1].peer] # "cust"
    /\ Len(sent) = 1
    /\ sent[1].msg.type = "no route"

-----------------------------------------------------------------------------
(* C5 *)

PropagationTargets(S) ==
    {N \in Neighbors : N # S /\ (relations[S] = "cust" \/ relations[N] = "cust")}

\* C5: an update or a withdraw received from S is forwarded to exactly the
\* neighbors other than S that are customers or, if S is a customer, to all of
\* them, one message each.
C5_PropagationPolicy ==
    (Handled("update") \/ Handled("withdraw")) =>
        /\ {sent[k].to : k \in 1..Len(sent)} = PropagationTargets(Last.srcif)
        /\ Len(sent) = Cardinality(PropagationTargets(Last.srcif))
        /\ \A k \in 1..Len(sent) : sent[k].msg.type = Last.msg.type

\* the policy holds of every update and withdraw whose handler returns
PropagationWhileRunning == running => C5_PropagationPolicy

-----------------------------------------------------------------------------
(* C6 *)

IndicesOf(type) == {k \in 1..Len(received) : received[k].msg.type = type}

\* the leaves announced so far, and the leaves named in a withdraw so far, each
\* with the neighbor that sent the message
AnnouncedLeaves ==
    {<<received[k].srcif, received[k].msg.msg.network, received[k].msg.msg.netmask>> :
        k \in IndicesOf("update")}

WithdrawnLeaves ==
    UNION {{<<received[k].srcif, received[k].msg.msg[d].network, received[k].msg.msg[d].netmask>> :
               d \in 1..Len(received[k].msg.msg)} : k \in IndicesOf("withdraw")}

\* the run is a sequence of updates followed by withdraws of exactly the same leaves
UpdatesThenWithdraws ==
    /\ \A u \in IndicesOf("update"), w \in IndicesOf("withdraw") : u < w
    /\ IndicesOf("update") \cup IndicesOf("withdraw") = 1..Len(received)
    /\ WithdrawnLeaves = AnnouncedLeaves

\* C6: after updates followed by withdraws of exactly the announced leaves the
\* table is empty.  A router that an update has stopped handles none of the
\* withdraws that follow, so the table it stopped with is the final table of
\* every such sequence.
C6_WithdrawReversible ==
    (UpdatesThenWithdraws \/ ~running) => routes = <<>>

\* the table is empty after every such sequence that the router handles to its end
ReversibleWhileRunning == (running /\ UpdatesThenWithdraws) => routes = <<>>

-----------------------------------------------------------------------------
(* C7 *)

\* the record is the leaf that an update received from its peer creates
LeafOfAnUpdate(r) ==
    \E k \in IndicesOf("update") :
        /\ received[k].msg.src = r.peer
        /\ received[k].msg.msg = Announce(r.network, r.netmask, r)

RECURSIVE WellFormed(_)
WellFormed(r) ==
    IF r.kids = <<>> THEN LeafOfAnUpdate(r)
    ELSE
      /\ Len(r.kids) = 2
      /\ \A c \in {r.kids[1], r.kids[2]} :
             /\ PrefixLen(c.netmask) = PrefixLen(r.netmask) + 1
             /\ SameAttributes(r, c)
             /\ WellFormed(c)
      /\ AgreeOn(r.kids[1].network, r.kids[2].network, PrefixLen(r.netmask))
      /\ Bit(r.kids[1].network, PrefixLen(r.netmask))
           # Bit(r.kids[2].network, PrefixLen(r.netmask))

\* C7: every aggregate reachable from the table has two children one bit longer
\* than itself, with its attributes, that agree before that bit and differ at
\* it; every record without children was created by an update.
C7_AggregatesWellFormed == \A i \in 1..Len(routes) : WellFormed(routes[i])

\* an aggregate of an aggregate is in the table
C7_Witness ==
    \E i \in 1..Len(routes) :
        /\ IsAggregate(routes[i])
        /\ IsAggregate(child0(routes[i])) \/ IsAggregate(child1(routes[i]))

-----------------------------------------------------------------------------
(* C8 *)

RECURSIVE SmallerNetworkFirst(_)
SmallerNetworkFirst(r) ==
    IsAggregate(r) =>
        /\ NumLess(child0(r).network, child1(r).network)
        /\ r.network = child0(r).network
        /\ SmallerNetworkFirst(child0(r))
        /\ SmallerNetworkFirst(child1(r))

\* C8: the network of an aggregate is the numerically smaller of its children's
\* networks, child0 is the child with the smaller network and child1 the other.
C8_SmallerNetworkFirst == \A i \in 1..Len(routes) : SmallerNetworkFirst(routes[i])

-----------------------------------------------------------------------------
(* C9 *)

\* C9: the table holds no two records with the same network, netmask and peer.
C9_NoDuplicateRecord ==
    \A i, j \in 1..Len(routes) :
        i < j => ~ ( /\ routes[i].network = routes[j].network
                     /\ routes[i].netmask = routes[j].netmask
                     /\ routes[i].peer = routes[j].peer )

-----------------------------------------------------------------------------
(* C10 *)

\* the leaf that neighbor srcif names with descriptor d lies in the tree of r
RECURSIVE HasLeaf(_, _, _)
HasLeaf(r, srcif, d) ==
    IF IsAggregate(r) THEN HasLeaf(child0(r), srcif, d) \/ HasLeaf(child1(r), srcif, d)
    ELSE r.network = d.network /\ r.netmask = d.netmask /\ r.peer = srcif

HasNamedLeaf(r, srcif, descs) == \E k \in 1..Len(descs) : HasLeaf(r, srcif, descs[k])

\* the aggregates on the path from r down to the named leaf
RECURSIVE PathAggregates(_, _, _)
PathAggregates(r, srcif, d) ==
    IF ~IsAggregate(r) THEN {}
    ELSE {r} \cup (IF HasLeaf(child0(r), srcif, d) THEN PathAggregates(child0(r), srcif, d)
                   ELSE PathAggregates(child1(r), srcif, d))

\* the sibling subtrees along that path
RECURSIVE PathSiblings(_, _, _)
PathSiblings(r, srcif, d) ==
    IF ~IsAggregate(r) THEN {}
    ELSE IF HasLeaf(child0(r), srcif, d)
         THEN {child1(r)} \cup PathSiblings(child0(r), srcif, d)
         ELSE {child0(r)} \cup PathSiblings(child1(r), srcif, d)

\* the step handles a withdraw message
WithdrawStep ==
    /\ Len(received') = Len(received) + 1
    /\ received'[Len(received')].msg.type = "withdraw"

\* what C10 states of a withdraw from srcif with the descriptors descs
Disaggregated(srcif, descs) ==
    /\ \A i \in 1..Len(routes), k \in 1..Len(descs) :
           (IsAggregate(routes[i]) /\ HasLeaf(routes[i], srcif, descs[k])) =>
               /\ \A a \in PathAggregates(routes[i], srcif, descs[k]) : ~Contains(routes', a)
               /\ \A j \in 1..Len(routes') : ~HasLeaf(routes'[j], srcif, descs[k])
               /\ \A s \in PathSiblings(routes[i], srcif, descs[k]) :
                      ~HasNamedLeaf(s, srcif, descs) => Contains(routes', s)
    /\ (\E i \in 1..Len(routes) : IsAggregate(routes[i]) /\ HasNamedLeaf(routes[i], srcif, descs)) =>
           \A j \in 1..Len(routes) :
               ~HasNamedLeaf(routes[j], srcif, descs) => Contains(routes', routes[j])

\* C10: a withdraw that names a leaf nested in a top-level aggregate removes the
\* aggregates on the path to the leaf and the leaf, leaves every sibling subtree
\* of the path at the top level as it was, and touches no other top-level record.
C10_Disaggregation ==
    [][WithdrawStep =>
          Disaggregated(received'[Len(received')].srcif, received'[Len(received')].msg.msg)]_vars

\* an aggregate in the tree of r has the network and netmask of d and the peer srcif
RECURSIVE HasAggregate(_, _, _)
HasAggregate(r, srcif, d) ==
    /\ IsAggregate(r)
    /\ \/ (r.network = d.network /\ r.netmask = d.netmask /\ r.peer = srcif)
       \/ HasAggregate(child0(r), srcif, d)
       \/ HasAggregate(child1(r), srcif, d)

\* no descriptor has the network, netmask and peer of an aggregate of the table
NamesNoAggregate(srcif, descs) ==
    \A i \in 1..Len(routes), k \in 1..Len(descs) : ~HasAggregate(routes[i], srcif, descs[k])

\* disaggregation is as C10 states it whenever the withdraw names no aggregate
DisaggregationOfLeaves ==
    [][(WithdrawStep /\ NamesNoAggregate(received'[Len(received')].srcif,
                                         received'[Len(received')].msg.msg))
         => Disaggregated(received'[Len(received')].srcif,
                          received'[Len(received')].msg.msg)]_vars

-----------------------------------------------------------------------------
(* C11 *)

\* C11: a withdraw removes a top-level record only if a leaf of it has the
\* network and netmask of a descriptor and the sender as its peer, and a withdraw
\* whose descriptors match no such leaf leaves the table as it is.
C11_LeafOnlyMatching ==
    [][WithdrawStep =>
          \A srcif \in {received'[Len(received')].srcif} :
          \A descs \in {received'[Len(received')].msg.msg} :
              /\ (\A i \in 1..Len(routes) : ~HasNamedLeaf(routes[i], srcif, descs))
                     => routes' = routes
              /\ \A i \in 1..Len(routes) :
                     ~Contains(routes', routes[i]) => HasNamedLeaf(routes[i], srcif, descs)]_vars

-----------------------------------------------------------------------------
(* C12 *)

\* C12: a data message from a neighbor has exactly one outbound message: the
\* record itself, sent to the peer of the route the decision engine returns, or,
\* when it returns none, a "no route" record sent to the neighbor, with the src
\* of the data message as its dst and an empty msg.
C12_ExactlyOneOutbound ==
    (Handled("data") /\ Last.srcif \in Neighbors) =>
        \A f \in {find_routes(routes, Last.srcif, Last.msg.dst)} :
            /\ Len(sent) = 1
            /\ IF f.found # <<>>
               THEN sent[1].to = f.found[1].peer /\ sent[1].msg = Last.msg
               ELSE /\ sent[1].to = Last.srcif
                    /\ sent[1].msg.type = "no route"
                    /\ sent[1].msg.dst = Last.msg.src
                    /\ sent[1].msg.msg = <<>>

\* while the peer of every top-level record is a neighbor, every data message has
\* its one outbound message
OneOutboundWithConfiguredPeers ==
    (\E i \in 1..Len(routes) : routes[i].peer \notin Neighbors) \/ C12_ExactlyOneOutbound

-----------------------------------------------------------------------------
(* C13 *)

IsLogged(arrival) == arrival.msg.type \in {"update", "withdraw"}

\* the update and withdraw records received so far, in the order of their arrival
InboundLog == SelectSeq(received, IsLogged)

\* C13: the update log holds the update and withdraw records received so far, in
\* the order of their arrival, each as it was received.
C13_LogHoldsInboundRecords ==
    /\ Len(updates) = Len(InboundLog)
    /\ \A k \in 1..Len(updates) :
           /\ updates[k].type = InboundLog[k].msg.type
           /\ updates[k] = InboundLog[k].msg

-----------------------------------------------------------------------------
(* C14 *)

\* C14: the handling of an update runs to completion, every record that coalesce
\* removes being in the table when it is removed, and the router goes on to the
\* next message.
C14_NoFatalUpdate == Handled("update") => running

-----------------------------------------------------------------------------
(* C15 *)

\* the 1-bits of the netmask come before its 0-bits
Contiguous(netmask) == \A k \in 0..30 : Bit(netmask, k + 1) = 1 => Bit(netmask, k) = 1

\* the step handles an update message
UpdateStep ==
    /\ Len(received') = Len(received) + 1
    /\ received'[Len(received')].msg.type = "update"

\* C15: an update whose netmask is not contiguous leaves the table as it is, and
\* the router goes on.
C15_GapNetmaskDropped ==
    [][(UpdateStep /\ ~Contiguous(received'[Len(received')].msg.msg.netmask))
          => (routes' = routes /\ running')]_vars

-----------------------------------------------------------------------------
(* C16 *)

\* the step handles an update or a withdraw whose src is no neighbor
StrangerStep ==
    /\ Len(received') = Len(received) + 1
    /\ received'[Len(received')].msg.type \in {"update", "withdraw"}
    /\ received'[Len(received')].msg.src \notin Neighbors

\* the peer of every leaf of the tree is a neighbor, and an update for the prefix
\* of the leaf arrived on the link of that neighbor
RECURSIVE LeafPeersAreLinks(_)
LeafPeersAreLinks(r) ==
    IF IsAggregate(r) THEN LeafPeersAreLinks(child0(r)) /\ LeafPeersAreLinks(child1(r))
    ELSE /\ r.peer \in Neighbors
         /\ \E k \in IndicesOf("update") :
                /\ received[k].srcif = r.peer
                /\ received[k].msg.msg.network = r.network
                /\ received[k].msg.msg.netmask = r.netmask

AllLeafPeersAreLinks == \A i \in 1..Len(routes) : LeafPeersAreLinks(routes[i])

\* C16: an update or a withdraw whose src is no neighbor changes neither the
\* table nor the log and has nothing sent; so the peer of every leaf is the
\* neighbor on whose link its update arrived.
C16_StrangerDropped ==
    [][/\ StrangerStep => (routes' = routes /\ updates' = updates /\ sent' = <<>>)
       /\ AllLeafPeersAreLinks']_vars

-----------------------------------------------------------------------------
(* C17 *)

\* the types of the records the router originates; a data record is relayed
OriginatedTypes == {"handshake", "update", "withdraw", "no route", "table"}

\* C17: every record the router originates and sends to a neighbor has as its src
\* the address of that neighbor with 1 as the last octet.
C17_SrcIsOurAddr ==
    \A k \in 1..Len(sent) :
        sent[k].msg.type \in OriginatedTypes => sent[k].msg.src = our_addr(sent[k].to)

-----------------------------------------------------------------------------
(* C18 *)

\* the step handles a message that is neither an update nor a withdraw
ProbeStep ==
    /\ Len(received') = Len(received) + 1
    /\ received'[Len(received')].msg.type \notin {"update", "withdraw"}

\* the entry of a table reply for a route: the route without its children
IsCopyWithoutChildren(entry, route) ==
    /\ DOMAIN entry = DOMAIN route \ {"kids"}
    /\ \A field \in DOMAIN entry : entry[field] = route[field]

\* the one record sent is the table reply to the requester
TableReply(request, outbound) ==
    /\ Len(outbound) = 1
    /\ outbound[1].to = request.src
    /\ outbound[1].msg.type = "table"
    /\ outbound[1].msg.dst = request.src
    /\ Len(outbound[1].msg.msg) = Len(routes)
    /\ \A i \in 1..Len(routes) : IsCopyWithoutChildren(outbound[1].msg.msg[i], routes[i])

\* C18: handling a data, dump, handshake or other message leaves the table and
\* the update log as they are, whether the handler returns or raises, and the
\* reply to the dump of a neighbor goes to that neighbor alone, with a copy of
\* every top-level route without its children.
C18_ProbesLeaveTableAndLog ==
    [][ProbeStep =>
          /\ routes' = routes
          /\ updates' = updates
          /\ ( /\ received'[Len(received')].msg.type = "dump"
               /\ received'[Len(received')].msg.src \in Neighbors )
                 => TableReply(received'[Len(received')].msg, sent')]_vars

\* a dump has been answered while the table holds an aggregate
C18_Witness ==
    /\ Handled("dump")
    /\ Len(sent) = 1
    /\ sent[1].msg.type = "table"
    /\ \E i \in 1..Len(routes) : IsAggregate(routes[i])

-----------------------------------------------------------------------------
(* C19 *)

\* a leaf is named by the neighbor that announced it, its network and its netmask
LeafKey(neighbor, network, netmask) == <<neighbor, network, netmask>>

\* how many leaves of the tree of r have the key
RECURSIVE LeafCount(_, _)
LeafCount(r, key) ==
    IF IsAggregate(r) THEN LeafCount(child0(r), key) + LeafCount(child1(r), key)
    ELSE IF LeafKey(r.peer, r.network, r.netmask) = key THEN 1 ELSE 0

RECURSIVE LeafCountFrom(_, _)
LeafCountFrom(i, key) ==
    IF i > Len(routes) THEN 0 ELSE LeafCount(routes[i], key) + LeafCountFrom(i + 1, key)

\* how many leaves reachable from the table have the key
TableLeafCount(key) == LeafCountFrom(1, key)

\* message number w is a withdraw that names the key
Names(w, key) ==
    /\ received[w].msg.type = "withdraw"
    /\ \E d \in 1..Len(received[w].msg.msg) :
           LeafKey(received[w].srcif, received[w].msg.msg[d].network,
                   received[w].msg.msg[d].netmask) = key

\* the updates that announced the key and that no later withdraw has named
LiveAnnouncements(key) ==
    {u \in IndicesOf("update") :
        /\ LeafKey(received[u].srcif, received[u].msg.msg.network,
                   received[u].msg.msg.netmask) = key
        /\ \A w \in (u + 1)..Len(received) : ~Names(w, key)}

AnnouncedKeys ==
    {LeafKey(received[u].srcif, received[u].msg.msg.network, received[u].msg.msg.netmask) :
        u \in IndicesOf("update")}

RECURSIVE LeafKeys(_)
LeafKeys(r) ==
    IF IsAggregate(r) THEN LeafKeys(child0(r)) \cup LeafKeys(child1(r))
    ELSE {LeafKey(r.peer, r.network, r.netmask)}

TableKeys == UNION {LeafKeys(routes[i]) : i \in 1..Len(routes)}

\* C19: the leaves reachable from the table are, one for one, the leaves that an
\* update announced and that no later withdraw of their neighbor has named.
C19_LeafConservation ==
    \A key \in AnnouncedKeys \cup TableKeys :
        TableLeafCount(key) = Cardinality(LiveAnnouncements(key))

\* no two leaves reachable from the table have the same key
NoLeafTwice == \A key \in TableKeys : TableLeafCount(key) <= 1

\* a step keeps the leaves conserved when its handler returns, no leaf is in the
\* table twice and, for a withdraw, no descriptor names an aggregate
ConservationStep ==
    [][( /\ C19_LeafConservation
         /\ NoLeafTwice
         /\ running'
         /\ WithdrawStep => NamesNoAggregate(received'[Len(received')].srcif,
                                             received'[Len(received')].msg.msg) )
          => C19_LeafConservation']_vars

-----------------------------------------------------------------------------
(* C20 *)

\* the neighbor has announced a prefix that matches dest in an update that no
\* later withdraw of the neighbor has named
AnnouncesCover(neighbor, dest) ==
    \E key \in AnnouncedKeys :
        /\ key[1] = neighbor
        /\ AgreeOn(dest, key[2], PrefixLen(key[3]))
        /\ LiveAnnouncements(key) # {}

\* C20: a data message is relayed only to a neighbor that has a live leaf whose
\* prefix matches the destination.
C20_RelayedToAnnouncer ==
    Handled("data") =>
        \A k \in 1..Len(sent) :
            sent[k].msg.type = "data" => AnnouncesCover(sent[k].to, Last.msg.dst)

\* every aggregate of the tree has the peer of both of its children
RECURSIVE OnePeer(_)
OnePeer(r) ==
    IsAggregate(r) =>
        /\ child0(r).peer = r.peer
        /\ child1(r).peer = r.peer
        /\ OnePeer(child0(r))
        /\ OnePeer(child1(r))

\* while no aggregate joins the leaves of two neighbors, a data message is relayed
\* to a neighbor that announces a prefix matching its destination
RelayedToAnnouncerWithOnePeer ==
    (\E i \in 1..Len(routes) : ~OnePeer(routes[i])) \/ C20_RelayedToAnnouncer

====
